---- MODULE Spec2Model ----
(***************************************************************************)
(* Model of assets/js/lang-switcher.js: the language switcher of a static  *)
(* multi-language site.  Strings are sequences of one-character strings,   *)
(* so that toLowerCase, split, slice and template concatenation are        *)
(* computed and not assumed.                                               *)
(***************************************************************************)
EXTENDS Integers, Sequences, FiniteSets, TLC

VARIABLES
  readyState,    \* document.readyState when the script is evaluated
  pc,            \* "script": not yet evaluated; "waiting": DOMContentLoaded
                 \* listener registered; "done": initLangSwitcher has run
  threw,         \* an exception left initLangSwitcher
  storageMode,   \* "ok"; "readonly": setItem throws; "unavailable": every
                 \* access to localStorage throws
  storage,       \* the value under STORAGE_KEY, Null when absent
  language,      \* navigator.language
  userLanguage,  \* navigator.userLanguage
  pathname,      \* window.location.pathname
  search,        \* window.location.search
  hash,          \* window.location.hash
  flags,         \* the img[data-lang] elements: data-lang and the active class
  handlers,      \* number of click listeners on each flag
  saved,         \* the local variable saved of initLangSwitcher, Null until set
  navs,          \* the navigations issued, in order
  probes,        \* the URLs handed to fetch, in order
  clicks,        \* the click handler invocations, in click order
  fin, fout, fout2, fpc   \* argument, results and position of the calls of a
                          \* function applied to enumerated inputs

fvars == <<fin, fout, fout2, fpc>>

env == <<storageMode, language, userLanguage, pathname, search, hash>>

mvars == <<env, readyState, pc, threw, storage, flags, handlers, saved, navs, probes, clicks>>

vars == <<mvars, fvars>>

(* ------------------------------ bounds ------------------------------- *)

\* longest string drawn as an input of normalizeLang
MaxLen == 4

\* number of flag clicks followed on one page
MaxClicks == 2

\* number of characters after the leading slash of an enumerated path
MaxPathLen == 5

(* ------------------------- string primitives ------------------------- *)

\* null / undefined: a value no real string equals
Null == <<"null">>

\* JavaScript falsiness of a string-or-null value: null, undefined and ''
Falsy(v) == v = Null \/ v = <<>>

\* the characters the enumerated strings are drawn from
Alphabet == {"e", "n", "u", "k", "a", "E", "U", "A", "-", "x"}

\* String.prototype.toLowerCase, on one character
LowerChar(c) ==
  CASE c = "A" -> "a" [] c = "E" -> "e" [] c = "F" -> "f" [] c = "K" -> "k"
    [] c = "L" -> "l" [] c = "N" -> "n" [] c = "R" -> "r" [] c = "S" -> "s"
    [] c = "U" -> "u" [] OTHER -> c

\* String.prototype.toLowerCase
toLowerCase(s) == [i \in 1..Len(s) |-> LowerChar(s[i])]

\* index of the first occurrence of character c in s, 0 when there is none
IndexOf(s, c) ==
  IF \E i \in 1..Len(s) : s[i] = c
  THEN CHOOSE i \in 1..Len(s) : s[i] = c /\ \A j \in 1..(i - 1) : s[j] # c
  ELSE 0

\* s.split(c)[0]: the part of s before the first c, all of s when there is none
SplitFirst(s, c) ==
  IF IndexOf(s, c) = 0 THEN s ELSE SubSeq(s, 1, IndexOf(s, c) - 1)

(* --------------------------- configuration --------------------------- *)

s_en == <<"e", "n">>
s_nl == <<"n", "l">>
s_uk == <<"u", "k">>
s_ua == <<"u", "a">>

DEFAULT_LANG == s_nl

SUPPORTED == {s_en, s_nl, s_uk, s_ua}

(* --------------------------- normalizeLang --------------------------- *)

\* normalizeLang without the alias mapping of its last return
normalizeLang_noAlias(code) ==
  IF Falsy(code) THEN DEFAULT_LANG
  ELSE LET lc == toLowerCase(code)
           base == IF Len(lc) > 2 THEN SplitFirst(lc, "-") ELSE lc
       IN  IF lc = s_ua THEN s_uk
           ELSE IF base \in SUPPORTED THEN base
           ELSE DEFAULT_LANG

\* normalizeLang splitting only codes longer than three characters
normalizeLang_len3(code) ==
  IF Falsy(code) THEN DEFAULT_LANG
  ELSE LET lc == toLowerCase(code)
           base == IF Len(lc) > 3 THEN SplitFirst(lc, "-") ELSE lc
       IN  IF lc = s_ua THEN s_uk
           ELSE IF base \in SUPPORTED THEN (IF base = s_ua THEN s_uk ELSE base)
           ELSE DEFAULT_LANG

\* normalizeLang returning '' for a code that is not supported
normalizeLang_emptyUnsupported(code) ==
  IF Falsy(code) THEN << >>
  ELSE LET lc == toLowerCase(code)
           base == IF Len(lc) > 2 THEN SplitFirst(lc, "-") ELSE lc
       IN  IF lc = s_ua THEN s_uk
           ELSE IF base \in SUPPORTED THEN (IF base = s_ua THEN s_uk ELSE base)
           ELSE << >>

normalizeLang(code) ==
  IF Falsy(code) THEN DEFAULT_LANG
  ELSE LET lc == toLowerCase(code)
           base == IF Len(lc) > 2 THEN SplitFirst(lc, "-") ELSE lc
       IN  IF lc = s_ua THEN s_uk
           ELSE IF base \in SUPPORTED THEN (IF base = s_ua THEN s_uk ELSE base)
           ELSE DEFAULT_LANG

\* navigator.language || navigator.userLanguage || '', normalized
pickLangFromNavigator(lang, userLang) ==
  normalizeLang(IF ~Falsy(lang) THEN lang
                ELSE IF ~Falsy(userLang) THEN userLang ELSE <<>>)

(* ------------------------ more string helpers ------------------------ *)

s_index == <<"i", "n", "d", "e", "x", ".", "h", "t", "m", "l">>
s_about == <<"a", "b", "o", "u", "t", ".", "h", "t", "m", "l">>
s_services == <<"s", "e", "r", "v", "i", "c", "e", "s", ".", "h", "t", "m", "l">>

\* s.split(c)
RECURSIVE Split(_, _)
Split(s, c) ==
  LET i == IndexOf(s, c)
  IN  IF i = 0 THEN <<s>>
      ELSE <<SubSeq(s, 1, i - 1)>> \o Split(SubSeq(s, i + 1, Len(s)), c)

\* parts.join(c)
RECURSIVE Join(_, _)
Join(parts, c) ==
  IF parts = <<>> THEN <<>>
  ELSE IF Len(parts) = 1 THEN parts[1]
  ELSE parts[1] \o <<c>> \o Join(Tail(parts), c)

\* parts.filter(Boolean): the non-empty segments
FilterBoolean(parts) == SelectSeq(parts, LAMBDA p : p # <<>>)

IsSpace(c) == c \in {" ", "\t", "\n"}

\* String.prototype.trim
RECURSIVE trim(_)
trim(s) ==
  IF s = <<>> THEN s
  ELSE IF IsSpace(s[1]) THEN trim(Tail(s))
  ELSE IF IsSpace(s[Len(s)]) THEN trim(SubSeq(s, 1, Len(s) - 1))
  ELSE s

\* s.replace(/^\/+|\/+$/g, ''): leading and trailing slashes removed
RECURSIVE StripSlashes(_)
StripSlashes(s) ==
  IF s = <<>> THEN s
  ELSE IF s[1] = "/" THEN StripSlashes(Tail(s))
  ELSE IF s[Len(s)] = "/" THEN StripSlashes(SubSeq(s, 1, Len(s) - 1))
  ELSE s

(* ------------------------ getCurrentPagePath ------------------------- *)

\* getCurrentPagePath without parts.shift()
getCurrentPagePath_keepLang(locPathname) ==
  LET path == IF Falsy(locPathname) THEN <<"/">> ELSE locPathname
  IN  IF path = <<"/">> \/ path = <<"/">> \o s_index THEN s_index
      ELSE LET p1 == IF path[1] = "/" THEN Tail(path) ELSE path
               parts == FilterBoolean(Split(p1, "/"))
               rest == Join(parts, "/")
           IN  IF rest = <<>> THEN s_index ELSE rest

\* getCurrentPagePath comparing the first segment as it is written
getCurrentPagePath_caseSensitive(locPathname) ==
  LET path == IF Falsy(locPathname) THEN <<"/">> ELSE locPathname
  IN  IF path = <<"/">> \/ path = <<"/">> \o s_index THEN s_index
      ELSE LET p1 == IF path[1] = "/" THEN Tail(path) ELSE path
               parts == FilterBoolean(Split(p1, "/"))
               first == IF parts # <<>> THEN parts[1] ELSE <<>>
               kept == IF first \in SUPPORTED \/ first = s_ua
                       THEN Tail(parts) ELSE parts
               rest == Join(kept, "/")
           IN  IF rest = <<>> THEN s_index ELSE rest

getCurrentPagePath(locPathname) ==
  LET path == IF Falsy(locPathname) THEN <<"/">> ELSE locPathname
  IN  IF path = <<"/">> \/ path = <<"/">> \o s_index THEN s_index
      ELSE LET p1 == IF path[1] = "/" THEN Tail(path) ELSE path
               parts == FilterBoolean(Split(p1, "/"))
               first == IF parts # <<>> THEN toLowerCase(parts[1]) ELSE <<>>
               kept == IF first \in SUPPORTED \/ first = s_ua
                       THEN Tail(parts) ELSE parts
               rest == Join(kept, "/")
           IN  IF rest = <<>> THEN s_index ELSE rest

(* -------------------------- buildTargetUrl --------------------------- *)

\* buildTargetUrl without the fragment
buildTargetUrl_noHash(lang, page, locSearch, locHash) ==
  LET pg == IF Falsy(page) \/ trim(page) = <<>> THEN s_index ELSE page
  IN  <<"/">> \o lang \o <<"/">> \o pg \o locSearch

buildTargetUrl(lang, page, locSearch, locHash) ==
  LET pg == IF Falsy(page) \/ trim(page) = <<>> THEN s_index ELSE page
  IN  <<"/">> \o lang \o <<"/">> \o pg \o locSearch \o locHash

(* ---------------------------- pageExists ----------------------------- *)

\* what a HEAD request can come to: a response in the ok range, a response
\* outside it, a rejected promise (network error, policy)
FetchOutcomes == {"ok", "notok", "error"}

\* pageExists taking a rejected request for a page that is there
pageExists_errorAsPresent(outcome) == IF outcome = "error" THEN TRUE ELSE outcome = "ok"

pageExists(outcome) == IF outcome = "error" THEN FALSE ELSE outcome = "ok"

(* --------------------------- markActiveFlag -------------------------- *)

\* markActiveFlag that only adds the class
markActiveFlag_addOnly(lang, fl) ==
  IF Len(fl) = 0 THEN fl
  ELSE [i \in 1..Len(fl) |->
          IF normalizeLang(fl[i].lang) = lang
          THEN [fl[i] EXCEPT !.active = TRUE]
          ELSE fl[i]]

markActiveFlag(lang, fl) ==
  IF Len(fl) = 0 THEN fl
  ELSE [i \in 1..Len(fl) |->
          IF normalizeLang(fl[i].lang) = lang
          THEN [fl[i] EXCEPT !.active = TRUE]
          ELSE [fl[i] EXCEPT !.active = FALSE]]


(* ------------------------------ storage ------------------------------ *)

\* try { localStorage.setItem(STORAGE_KEY, value) } catch (err) {}: the
\* stored value afterwards
setItem(mode, old, value) == IF mode = "ok" THEN value ELSE old

(* ------------------------- initLangSwitcher -------------------------- *)

\* lines 95-101: the initial language from the stored item and the navigator
resolveSaved(item, lang, userLang) ==
  LET s0 == normalizeLang(IF Falsy(item) THEN <<>> ELSE item)
  IN  IF Falsy(s0) \/ s0 = DEFAULT_LANG
      THEN LET navLang == pickLangFromNavigator(lang, userLang)
           IN  IF Falsy(navLang) THEN DEFAULT_LANG ELSE navLang
      ELSE s0

\* autoRedirectFromRoot: the navigations it issues
autoRedirectFromRoot(sv, locPathname, locSearch, locHash) ==
  LET p == IF Falsy(locPathname) THEN <<"/">> ELSE locPathname
  IN  IF p = <<"/">> \/ p = <<"/">> \o s_index
      THEN << [kind |-> "replace", by |-> 0,
               url |-> buildTargetUrl(sv, s_index, locSearch, locHash)] >>
      ELSE << >>

\* markByUrl taking the first segment of the path as it is
markByUrl_rawFirst(locPathname) ==
  LET path == toLowerCase(IF Falsy(locPathname) THEN <<"/">> ELSE locPathname)
      segments == Split(StripSlashes(path), "/")
  IN  IF Falsy(segments[1]) THEN <<>> ELSE segments[1]

\* markByUrl, lines 150-155: the normalized first segment of the path
markByUrl_normFirst(locPathname) ==
  LET path == toLowerCase(IF Falsy(locPathname) THEN <<"/">> ELSE locPathname)
      segments == Split(StripSlashes(path), "/")
      first == IF Falsy(segments[1]) THEN <<>> ELSE segments[1]
  IN  normalizeLang(first)

\* the whole of initLangSwitcher
initLangSwitcher ==
  /\ pc' = "done"
  /\ IF Len(flags) = 0
     THEN UNCHANGED <<threw, storage, flags, handlers, saved, navs>>
     ELSE IF storageMode = "unavailable"
     THEN /\ threw' = TRUE
          /\ UNCHANGED <<storage, flags, handlers, saved, navs>>
     ELSE LET sv == resolveSaved(storage, language, userLanguage)
              fl1 == markActiveFlag(sv, flags)
              normFirst == markByUrl_normFirst(pathname)
          IN  /\ saved' = sv
              /\ navs' = navs \o autoRedirectFromRoot(sv, pathname, search, hash)
              /\ handlers' = [i \in 1..Len(flags) |-> handlers[i] + 1]
              /\ IF normFirst \in SUPPORTED
                 THEN /\ flags' = markActiveFlag(normFirst, fl1)
                      /\ storage' = setItem(storageMode, storage, normFirst)
                 ELSE /\ flags' = fl1
                      /\ UNCHANGED storage
              /\ UNCHANGED threw

(* ------------------------------ actions ------------------------------ *)

\* lines 164-168: the script is evaluated
Start ==
  /\ pc = "script"
  /\ IF readyState = "loading"
     THEN /\ pc' = "waiting"
          /\ UNCHANGED <<threw, storage, flags, handlers, saved, navs>>
     ELSE initLangSwitcher
  /\ UNCHANGED <<env, readyState, probes, clicks>>
  /\ UNCHANGED fvars

\* the document has been parsed: the listener of line 165 runs
DOMContentLoaded ==
  /\ pc = "waiting"
  /\ readyState' = "interactive"
  /\ initLangSwitcher
  /\ UNCHANGED <<env, probes, clicks>>
  /\ UNCHANGED fvars

\* the navigation of a resumed click handler, issued with location.replace
clickNavigation_replace(k, chosen, target, exists, locSearch, locHash) ==
  [kind |-> "replace", by |-> k,
   url |-> IF exists THEN target
           ELSE buildTargetUrl(chosen, s_index, locSearch, locHash)]

\* the navigation of a resumed click handler, falling back to the index of
\* the default language
clickNavigation_fallbackDefault(k, chosen, target, exists, locSearch, locHash) ==
  [kind |-> "href", by |-> k,
   url |-> IF exists THEN target
           ELSE buildTargetUrl(DEFAULT_LANG, s_index, locSearch, locHash)]

\* lines 137-143: the navigation of a resumed click handler
clickNavigation(k, chosen, target, exists, locSearch, locHash) ==
  [kind |-> "href", by |-> k,
   url |-> IF exists THEN target
           ELSE buildTargetUrl(chosen, s_index, locSearch, locHash)]

\* a click on flag i that does not persist the choice
Click_noPersist(i) ==
  /\ pc = "done"
  /\ i \in 1..Len(flags)
  /\ handlers[i] = 1
  /\ Len(clicks) < MaxClicks
  /\ LET chosen == normalizeLang(flags[i].lang)
     IN  IF Falsy(chosen)
         THEN UNCHANGED <<flags, probes, clicks>>
         ELSE LET page == getCurrentPagePath(pathname)
                  target == buildTargetUrl(chosen, page, search, hash)
              IN  /\ flags' = markActiveFlag(chosen, flags)
                  /\ probes' = Append(probes, target)
                  /\ clicks' = Append(clicks,
                        [flag |-> i, chosen |-> chosen, target |-> target,
                         state |-> "probing", outcome |-> "pending",
                         exists |-> FALSE])
  /\ UNCHANGED <<env, readyState, pc, threw, handlers, saved, navs, storage>>
  /\ UNCHANGED fvars

\* lines 120-136: a click on flag i, up to the await
Click(i) ==
  /\ pc = "done"
  /\ i \in 1..Len(flags)
  /\ handlers[i] = 1
  /\ Len(clicks) < MaxClicks
  /\ LET chosen == normalizeLang(flags[i].lang)
     IN  IF Falsy(chosen)
         THEN UNCHANGED <<storage, flags, probes, clicks>>
         ELSE LET page == getCurrentPagePath(pathname)
                  target == buildTargetUrl(chosen, page, search, hash)
              IN  /\ storage' = setItem(storageMode, storage, chosen)
                  /\ flags' = markActiveFlag(chosen, flags)
                  /\ probes' = Append(probes, target)
                  /\ clicks' = Append(clicks,
                        [flag |-> i, chosen |-> chosen, target |-> target,
                         state |-> "probing", outcome |-> "pending",
                         exists |-> FALSE])
  /\ UNCHANGED <<env, readyState, pc, threw, handlers, saved, navs>>
  /\ UNCHANGED fvars

\* lines 67-76: the HEAD request of click k comes to an end and pageExists
\* resolves
FetchSettles(k, outcome) ==
  /\ k \in 1..Len(clicks)
  /\ clicks[k].state = "probing"
  /\ clicks' = [clicks EXCEPT ![k].state = "settled",
                              ![k].outcome = outcome,
                              ![k].exists = pageExists(outcome)]
  /\ UNCHANGED <<env, readyState, pc, threw, storage, flags, handlers, saved,
                 navs, probes>>
  /\ UNCHANGED fvars

\* a handler that navigates only when no later click has been made
Resume_latestOnly(k) ==
  /\ k \in 1..Len(clicks)
  /\ clicks[k].state = "settled"
  /\ navs' = IF k = Len(clicks)
             THEN Append(navs, clickNavigation(k, clicks[k].chosen,
                                 clicks[k].target, clicks[k].exists, search, hash))
             ELSE navs
  /\ clicks' = [clicks EXCEPT ![k].state = "done"]
  /\ UNCHANGED <<env, readyState, pc, threw, storage, flags, handlers, saved,
                 probes>>
  /\ UNCHANGED fvars

\* lines 137-143: the handler of click k resumes after the await
Resume(k) ==
  /\ k \in 1..Len(clicks)
  /\ clicks[k].state = "settled"
  /\ navs' = Append(navs, clickNavigation(k, clicks[k].chosen, clicks[k].target,
                                          clicks[k].exists, search, hash))
  /\ clicks' = [clicks EXCEPT ![k].state = "done"]
  /\ UNCHANGED <<env, readyState, pc, threw, storage, flags, handlers, saved,
                 probes>>
  /\ UNCHANGED fvars

(* --------------------------- initial states -------------------------- *)

\* the flag elements of a page as the markup gives them: the data-lang
\* attributes, and the flags that carry the active class
FlagMarkups ==
  { << << >>, {} >>,
    << <<s_en, s_nl, s_uk>>, {} >>,
    << <<s_en, s_nl, s_uk>>, {1, 2, 3} >>,
    << <<s_ua, <<"U", "K">>, <<"f", "r">> >>, {1} >>,
    << <<s_ua, <<"U", "K">>, <<"f", "r">> >>, {2, 3} >>,
    << << << >> >>, {} >> }

InitFlags(langs, active) ==
  [i \in 1..Len(langs) |-> [lang |-> langs[i], active |-> (i \in active)]]

\* localStorage before the script runs: its mode and the value under the key
Storages ==
  { <<"ok", Null>>, <<"ok", s_en>>, <<"ok", s_nl>>, <<"ok", s_ua>>,
    <<"ok", <<"f", "r">> >>, <<"readonly", s_en>>, <<"unavailable", Null>> }

\* navigator.language and navigator.userLanguage
Locales ==
  { <<Null, Null>>,
    << <<"u", "k", "-", "U", "A">>, Null >>,
    << Null, <<"e", "n", "-", "U", "S">> >> }

Pathnames ==
  { <<"/">>,
    <<"/">> \o s_index,
    <<"/">> \o s_about,
    <<"/">> \o s_nl \o <<"/">> \o s_services,
    <<"/">> \o s_ua \o <<"/">>,
    <<"/", "E", "N", "/">> \o s_about }

\* window.location.search and window.location.hash
QueryFragments ==
  { << << >>, << >> >>,
    << <<"?", "x", "=", "1">>, <<"#", "t", "o", "p">> >> }

\* the page before the script is evaluated
InitPage(storages, locales) ==
  /\ readyState \in {"loading", "interactive"}
  /\ pc = "script"
  /\ threw = FALSE
  /\ \E st \in storages : storageMode = st[1] /\ storage = st[2]
  /\ \E l \in locales : language = l[1] /\ userLanguage = l[2]
  /\ pathname \in Pathnames
  /\ \E q \in QueryFragments : search = q[1] /\ hash = q[2]
  /\ \E m \in FlagMarkups : flags = InitFlags(m[1], m[2])
  /\ handlers = [i \in 1..Len(flags) |-> 0]
  /\ saved = Null
  /\ navs = << >>
  /\ probes = << >>
  /\ clicks = << >>
  /\ fin = Null /\ fout = Null /\ fout2 = Null /\ fpc = "in"

Init == InitPage(Storages, Locales)

Next ==
  \/ Start
  \/ DOMContentLoaded
  \/ \E i \in 1..Len(flags) : Click(i)
  \/ \E k \in 1..Len(clicks), o \in FetchOutcomes : FetchSettles(k, o)
  \/ \E k \in 1..Len(clicks) : Resume(k)

Spec == Init /\ [][Next]_vars

\* the pages on which sequences of clicks are followed: what is stored and
\* the browser locale are read by initLangSwitcher only, and one locale and
\* one stored value for each mode of the store stand for them
ClickSpec ==
  /\ InitPage({<<"ok", Null>>, <<"ok", <<"f", "r">> >>, <<"readonly", s_en>>,
               <<"unavailable", Null>>},
              {<< <<"u", "k", "-", "U", "A">>, Null >>})
  /\ [][Next]_vars

\* the event loop runs the continuation of a handler whose await has
\* resolved; nothing in the code makes a request come to an end
FairSpec ==
  /\ InitPage({<<"ok", Null>>, <<"unavailable", Null>>}, {<<Null, Null>>})
  /\ [][Next]_vars
  /\ \A k \in 1..MaxClicks : WF_vars(Resume(k))

\* FairSpec, and every HEAD request comes to an end, with a response or with
\* an error
ProbeFairSpec ==
  /\ InitPage({<<"ok", Null>>, <<"unavailable", Null>>}, {<<Null, Null>>})
  /\ [][Next]_vars
  /\ \A k \in 1..MaxClicks : WF_vars(\E o \in FetchOutcomes : FetchSettles(k, o))
  /\ \A k \in 1..MaxClicks : WF_vars(Resume(k))

(* ----------------------- vocabulary of the claims --------------------- *)

\* the canonical language codes
Canonical == {s_en, s_nl, s_uk}

RootPaths == {<<"/">>, <<"/">> \o s_index}

\* the leading segment of a path: what stands between its first slash and
\* the next one
LeadingSegment(p) ==
  SplitFirst(IF p # << >> /\ p[1] = "/" THEN Tail(p) ELSE p, "/")

\* the leading segment of the current path is a supported language code
LeadsWithLanguage == toLowerCase(LeadingSegment(pathname)) \in SUPPORTED

\* the navigations issued by initLangSwitcher (by = 0) or by click k
NavsBy(k) == SelectSeq(navs, LAMBDA n : n.by = k)

\* initLangSwitcher is entered by this step
InitRuns == pc # "done" /\ pc' = "done"

\* initLangSwitcher ran to its end on a page that has flags
InitCompleted == pc = "done" /\ ~threw /\ Len(flags) > 0

\* exactly the flags of language L carry the active class
ActiveExactly(fl, L) ==
  \A i \in 1..Len(fl) : fl[i].active <=> normalizeLang(fl[i].lang) = L

(* ------------------------------- C1 ---------------------------------- *)

\* C1: when initialization resolves the effective language, a stored
\* preference s in {en, nl, uk, ua} gives normalizeLang(s) whatever the
\* browser locale is, and the browser locale is used when nothing is stored.
C1_StoredPreferenceFirst ==
  [][ InitRuns /\ saved' # Null =>
        /\ storage \in SUPPORTED => saved' = normalizeLang(storage)
        /\ storage = Null => saved' = pickLangFromNavigator(language, userLanguage)
    ]_vars

(* ------------------------------- C2 ---------------------------------- *)

\* C2: after initialization on '/' or '/index.html' exactly one
\* history-replacing redirect to /<effective language>/index.html plus query
\* and fragment has been issued, whatever the page contains (no flag elements
\* included); on every other path initialization issues no redirect.
C2_RootRedirect ==
  pc = "done" /\ storageMode # "unavailable" =>
    IF pathname \in RootPaths
    THEN /\ Len(NavsBy(0)) = 1
         /\ NavsBy(0)[1].kind = "replace"
         /\ \E L \in SUPPORTED :
              /\ saved # Null => L = saved
              /\ NavsBy(0)[1].url = <<"/">> \o L \o <<"/">> \o s_index \o search \o hash
    ELSE NavsBy(0) = << >>

(* ------------------------------- C3 ---------------------------------- *)

\* the navigation of click k is as C3 says
C3_ClickNavigates(k) ==
  LET c == clicks[k]
      L == normalizeLang(flags[c.flag].lang)
      P == getCurrentPagePath(pathname)
  IN  IF c.state # "done" THEN NavsBy(k) = << >>
      ELSE /\ Len(NavsBy(k)) = 1
           /\ NavsBy(k)[1].kind = "href"
           /\ NavsBy(k)[1].url =
                IF c.exists THEN <<"/">> \o L \o <<"/">> \o P \o search \o hash
                ELSE <<"/">> \o L \o <<"/">> \o s_index \o search \o hash

C3_Safe ==
  /\ \A k \in 1..Len(clicks) : C3_ClickNavigates(k)
  /\ \A n \in 1..Len(navs) : navs[n].by \in 0..Len(clicks)

\* C3: a click on a flag of language L on a page of identity P issues no
\* navigation before its probe has completed, and once the probe has
\* completed it issues exactly one normal navigation: to /L/P plus query and
\* fragment when the probe confirmed the page, to /L/index.html plus query
\* and fragment otherwise.
C3_ClickProbeThenNavigate ==
  /\ []C3_Safe
  /\ \A k \in 1..MaxClicks :
       (Len(clicks) >= k /\ clicks[k].state = "settled")
         ~> (Len(clicks) >= k /\ clicks[k].state = "done" /\ Len(NavsBy(k)) = 1)

\* 'en' was clicked on /nl/services.html, the probe did not confirm
\* /en/services.html, and the click has navigated to /en/index.html
C3_Witness ==
  /\ pathname = <<"/">> \o s_nl \o <<"/">> \o s_services
  /\ \E k \in 1..Len(clicks) :
       /\ clicks[k].state = "done"
       /\ clicks[k].chosen = s_en
       /\ ~clicks[k].exists
       /\ clicks[k].target = <<"/">> \o s_en \o <<"/">> \o s_services \o search \o hash
       /\ NavsBy(k) = << [kind |-> "href", by |-> k,
                          url |-> <<"/">> \o s_en \o <<"/">> \o s_index \o search \o hash] >>

(* ------------------------------- C4 ---------------------------------- *)

\* C4: the stored preference changes only by a flag click, or by an
\* initialization on a path whose leading segment is a supported language
\* code, which writes that segment's normalized code; initialization on any
\* other path leaves it unchanged, and nothing deletes it.
C4_PreferenceWrites ==
  [][ storage' # storage =>
        /\ storage' # Null
        /\ \/ Len(clicks') > Len(clicks)
           \/ /\ InitRuns
              /\ LeadsWithLanguage
              /\ storage' = normalizeLang(LeadingSegment(pathname))
    ]_vars

(* ------------------------------- C5 ---------------------------------- *)

\* C5: when initialization has completed on a page with flags, the
\* highlighted language is the normalized leading path segment if that
\* segment is a supported language code, and the effective language
\* otherwise.
C5_HighlightAfterInit ==
  InitCompleted /\ clicks = << >> =>
    ActiveExactly(flags, IF LeadsWithLanguage
                         THEN normalizeLang(LeadingSegment(pathname))
                         ELSE saved)

(* ------------------------------- C6 ---------------------------------- *)

C7_StorageFailureNotFatal ==
  pc = "done" /\ storageMode = "unavailable" =>
    /\ ~threw
    /\ Len(flags) > 0 =>
         /\ saved = pickLangFromNavigator(language, userLanguage)
         /\ \A i \in 1..Len(flags) : handlers[i] = 1
         /\ pathname \in RootPaths => Len(NavsBy(0)) = 1
         /\ \E L \in Canonical : ActiveExactly(flags, L)

(* ------------------------------- C10 --------------------------------- *)

\* url is /<language>/<page> followed by the current query and fragment,
\* with a supported language and a page that is not blank
UrlShape(url) ==
  LET suffix == search \o hash
      n == Len(url) - Len(suffix)
  IN  /\ n >= 5
      /\ url[1] = "/"
      /\ SubSeq(url, 2, 3) \in SUPPORTED
      /\ url[4] = "/"
      /\ SubSeq(url, n + 1, Len(url)) = suffix
      /\ trim(SubSeq(url, 5, n)) # << >>
      /\ \A i \in 5..n : url[i] \notin {"?", "#"}

\* C10: every navigation target and every probed URL has the shape
\* /<language>/<page>[?query][#fragment] with a supported language, a
\* non-empty page and the query and fragment of the current URL; an empty or
\* blank page becomes index.html, and buildTargetUrl('nl', 'about.html') with
\* '?x=1' and '#top' is '/nl/about.html?x=1#top'.
C10_UrlShape ==
  /\ \A n \in 1..Len(navs) : UrlShape(navs[n].url)
  /\ \A n \in 1..Len(probes) : UrlShape(probes[n])
  /\ \A L \in Canonical, pg \in {Null, << >>, <<" ">>, <<" ", "\t">>} :
       buildTargetUrl(L, pg, search, hash)
         = <<"/">> \o L \o <<"/">> \o s_index \o search \o hash
  /\ buildTargetUrl(s_nl, s_about, <<"?", "x", "=", "1">>, <<"#", "t", "o", "p">>)
       = <<"/", "n", "l", "/">> \o s_about \o <<"?", "x", "=", "1", "#", "t", "o", "p">>

\* with a query and a fragment in the URL, a click has probed its candidate
\* and navigated to the index fallback
C10_Witness ==
  /\ search # << >> /\ hash # << >>
  /\ \E k \in 1..Len(clicks) :
       /\ clicks[k].state = "done" /\ ~clicks[k].exists
       /\ probes[k] # NavsBy(k)[1].url
       /\ UrlShape(probes[k]) /\ UrlShape(NavsBy(k)[1].url)

(* ------------- normalizeLang applied to enumerated inputs ------------ *)

\* every string over Alphabet of length at most n
Strings(n) == UNION {[1..k -> Alphabet] : k \in 0..n}

\* language tags of the documentation and of the claims' examples
ExampleTags ==
  { <<"e", "n", "-", "U", "S">>, <<"u", "k", "-", "U", "A">>,
    <<"u", "a", "-", "U", "A">>, <<"U", "A", "-", "u", "a">>,
    <<"n", "l", "-", "N", "L">>, <<"N", "L">>, s_nl,
    <<"f", "r", "-", "F", "R">>, <<"e", "n", "-", "U", "S", "-", "x">> }

NormInputs == Strings(MaxLen) \cup ExampleTags \cup {Null}

InitNorm ==
  /\ readyState = "interactive" /\ pc = "done" /\ threw = FALSE
  /\ storageMode = "ok" /\ storage = Null
  /\ language = Null /\ userLanguage = Null
  /\ pathname = <<"/">> /\ search = << >> /\ hash = << >>
  /\ flags = << >> /\ handlers = << >> /\ saved = Null
  /\ navs = << >> /\ probes = << >> /\ clicks = << >>
  /\ fin \in NormInputs
  /\ fout = Null
  /\ fout2 = Null
  /\ fpc = "in"

\* normalizeLang(x)
CallNormalize ==
  /\ fpc = "in"
  /\ fout' = normalizeLang(fin)
  /\ fpc' = "once"
  /\ UNCHANGED <<fin, fout2>>
  /\ UNCHANGED mvars

\* normalizeLang(normalizeLang(x))
CallNormalizeAgain ==
  /\ fpc = "once"
  /\ fout2' = normalizeLang(fout)
  /\ fpc' = "twice"
  /\ UNCHANGED <<fin, fout>>
  /\ UNCHANGED mvars

NextNorm == CallNormalize \/ CallNormalizeAgain

SpecNorm == InitNorm /\ [][NextNorm]_vars

(* ------------------------------- C8 ---------------------------------- *)

\* C8: for every input (empty and undefined included) normalizeLang returns
\* a member of the supported-language set, and normalizing the result again
\* returns the same result.
C8_NormalizeTotalIdempotent ==
  /\ fpc # "in" => fout \in SUPPORTED
  /\ fpc = "twice" => fout2 = fout

\* a region-qualified alias tag has been normalized twice
C8_Witness ==
  /\ fpc = "twice"
  /\ Len(fin) > 2
  /\ SplitFirst(toLowerCase(fin), "-") = s_ua
  /\ fout = s_uk

(* ------------------------------- C9 ---------------------------------- *)

\* the tag with the base 'ua' replaced by 'uk' and 'uk' by 'ua', the letter
\* case of the rest and the region suffix kept
AliasSwap(tag) ==
  LET i == IndexOf(tag, "-")
      b == IF i = 0 THEN tag ELSE SubSeq(tag, 1, i - 1)
      rest == IF i = 0 THEN <<>> ELSE SubSeq(tag, i, Len(tag))
  IN  IF toLowerCase(b) = s_ua THEN s_uk \o rest
      ELSE IF toLowerCase(b) = s_uk THEN s_ua \o rest
      ELSE tag

\* C9: 'ua' and 'uk' normalize to the same result in every letter case and
\* with every region suffix; a tag <base>-<region> normalizes to
\* normalizeLang(base) when base is supported and to 'nl' otherwise.
C9_AliasAndRegion ==
  fpc # "in" /\ fin # Null =>
    LET i == IndexOf(fin, "-")
        b == SubSeq(fin, 1, i - 1)
    IN  /\ fout = normalizeLang(AliasSwap(fin))
        /\ toLowerCase(SplitFirst(fin, "-")) \in {s_ua, s_uk} => fout = s_uk
        /\ i > 0 =>
             IF toLowerCase(b) \in SUPPORTED
             THEN fout = normalizeLang(b) /\ fout = (IF toLowerCase(b) = s_ua THEN s_uk ELSE toLowerCase(b))
             ELSE fout = DEFAULT_LANG

\* an upper-case alias with a region suffix has been normalized
C9_Witness ==
  /\ fpc = "once"
  /\ fin = <<"U", "A", "-", "u", "a">>
  /\ fout = s_uk

(* ---- getCurrentPagePath and buildTargetUrl on enumerated paths ------- *)

\* the characters the enumerated paths are drawn from; a pathname is
\* percent-encoded and holds no blank, '?' or '#'
PathAlphabet == {"/", "e", "n", "E", "u", "a", "x"}

\* paths of the documentation and of the claims' examples
ExamplePaths ==
  Pathnames \cup
  { <<"/">> \o s_en \o <<"/">> \o s_about,
    <<"/">> \o s_en \o <<"/">> \o s_index,
    <<"/">> \o s_uk \o <<"/", "d", "o", "c", "s", "/">> \o s_about,
    <<"/", "u", "a", "/", "x", "/", "a">> }

PathInputs ==
  {<<"/">> \o t : t \in UNION {[1..k -> PathAlphabet] : k \in 0..MaxPathLen}}
    \cup ExamplePaths

InitPath ==
  /\ readyState = "interactive" /\ pc = "done" /\ threw = FALSE
  /\ storageMode = "ok" /\ storage = Null
  /\ language = Null /\ userLanguage = Null
  /\ pathname \in PathInputs
  /\ search = <<"?", "x", "=", "1">> /\ hash = <<"#", "t", "o", "p">>
  /\ flags = << >> /\ handlers = << >> /\ saved = Null
  /\ navs = << >> /\ probes = << >> /\ clicks = << >>
  /\ fin = pathname
  /\ fout = Null
  /\ fout2 = Null
  /\ fpc = "in"

\* getCurrentPagePath() on the current path
CallGetCurrentPagePath ==
  /\ fpc = "in"
  /\ fout' = getCurrentPagePath(pathname)
  /\ fpc' = "once"
  /\ UNCHANGED <<fin, fout2>>
  /\ UNCHANGED mvars

\* buildTargetUrl(lang, page) on the page identity just computed
CallBuildTargetUrl(lang) ==
  /\ fpc = "once"
  /\ fout2' = buildTargetUrl(lang, fout, search, hash)
  /\ fpc' = "twice"
  /\ UNCHANGED <<fin, fout>>
  /\ UNCHANGED mvars

NextPath ==
  \/ CallGetCurrentPagePath
  \/ \E lang \in SUPPORTED : CallBuildTargetUrl(lang)

SpecPath == InitPath /\ [][NextPath]_vars

(* ------------------------------- C11 --------------------------------- *)

\* the non-empty segments of a path
Segments(p) == FilterBoolean(Split(p, "/"))

\* C11: getCurrentPagePath gives 'index.html' for '/' and '/index.html';
\* otherwise the segments of the path without exactly one leading segment
\* when that segment is a supported code or the alias in any letter case,
\* joined by '/', and 'index.html' when nothing remains; the result is never
\* empty and never begins with '/'.
C11_PageIdentity ==
  fpc # "in" =>
    LET segs == Segments(fin)
        lead == segs # << >> /\ toLowerCase(segs[1]) \in SUPPORTED
        out == Split(fout, "/")
    IN  /\ fout # << >> /\ fout[1] # "/"
        /\ \A i \in 1..Len(out) : out[i] # << >>
        /\ fin \in RootPaths => fout = s_index
        /\ fin \notin RootPaths =>
             /\ lead /\ Len(segs) > 1 => <<segs[1]>> \o out = segs
             /\ lead /\ Len(segs) = 1 => fout = s_index
             /\ ~lead /\ segs # << >> => out = segs
             /\ segs = << >> => fout = s_index
        /\ fin = <<"/">> \o s_en \o <<"/">> \o s_about => fout = s_about
        /\ fin = <<"/">> \o s_about => fout = s_about
        /\ fin = <<"/">> \o s_en \o <<"/">> => fout = s_index

\* an upper-case language segment has been dropped from a path with more
\* than one remaining segment
C11_Witness ==
  /\ fpc = "once"
  /\ fin = <<"/", "E", "n", "/", "x", "/">>
  /\ fout = <<"x">>

(* ------------------------------- C17 --------------------------------- *)

\* the path of a URL: what stands before its query and fragment
PathOfUrl(url) == SplitFirst(SplitFirst(url, "#"), "?")

\* /<lang>/<page> with a canonical language code and a page whose segments
\* are all non-empty
CanonicalPath(p) ==
  /\ Len(p) >= 5
  /\ p[1] = "/" /\ SubSeq(p, 2, 3) \in Canonical /\ p[4] = "/"
  /\ \A sg \in {Split(SubSeq(p, 5, Len(p)), "/")} :
       \A i \in 1..Len(sg) : sg[i] # << >>

\* C17: for every path p and supported language L the page identity of the
\* path of buildTargetUrl(L, getCurrentPagePath(p)) is getCurrentPagePath(p);
\* switching to L and then to L2 gives the URL of switching to L2 directly;
\* switching to the language that prefixes a canonical /<lang>/<page> path
\* gives that path.
C17_SwitchKeepsPage ==
  fpc = "twice" =>
    /\ \E L \in SUPPORTED : SubSeq(fout2, 1, 4) = <<"/">> \o L \o <<"/">>
    /\ getCurrentPagePath(PathOfUrl(fout2)) = fout
    /\ \A L2 \in SUPPORTED :
         buildTargetUrl(L2, getCurrentPagePath(PathOfUrl(fout2)), search, hash)
           = buildTargetUrl(L2, getCurrentPagePath(fin), search, hash)
    /\ CanonicalPath(fin) /\ SubSeq(fout2, 2, 3) = SubSeq(fin, 2, 3) =>
         PathOfUrl(fout2) = fin

\* from /ua/x/a the switch to 'en' has given /en/x/a plus query and fragment
C17_Witness ==
  /\ fpc = "twice"
  /\ fin = <<"/", "u", "a", "/", "x", "/", "a">>
  /\ fout = <<"x", "/", "a">>
  /\ fout2 = <<"/", "e", "n", "/", "x", "/", "a">> \o search \o hash

(* ------------------------------- C12 --------------------------------- *)

\* C12: pageExists has two outcomes and never raises: true exactly when the
\* HEAD request completed with a response in the ok range, false for a
\* response outside it and for a rejected request; a click whose probe
\* failed navigates all the same, to the index URL of the chosen language.
C12_ProbeTwoOutcomes ==
  /\ \A o \in FetchOutcomes : pageExists(o) \in BOOLEAN
  /\ \A k \in 1..Len(clicks) :
       LET c == clicks[k]
       IN  /\ c.state = "probing" => c.outcome = "pending"
           /\ c.state # "probing" =>
                /\ c.outcome \in FetchOutcomes
                /\ c.exists \in BOOLEAN
                /\ c.exists <=> c.outcome = "ok"
           /\ c.state = "done" /\ c.outcome # "ok" =>
                NavsBy(k) = << [kind |-> "href", by |-> k,
                                url |-> <<"/">> \o c.chosen \o <<"/">>
                                          \o s_index \o search \o hash] >>
           /\ c.state = "done" /\ c.outcome = "ok" =>
                NavsBy(k) = << [kind |-> "href", by |-> k, url |-> c.target] >>

\* the request of a click was rejected and the click has navigated to the
\* index of its language, which is not the page it probed
C12_Witness ==
  \E k \in 1..Len(clicks) :
    /\ clicks[k].state = "done"
    /\ clicks[k].outcome = "error"
    /\ Len(NavsBy(k)) = 1
    /\ NavsBy(k)[1].url # clicks[k].target

(* ------------------------------- C13 --------------------------------- *)

\* every click has its probe, whatever is in flight already, and a click has
\* navigated exactly when its handler has resumed
C13_EachClickItsOwn ==
  /\ Len(probes) = Len(clicks)
  /\ \A k \in 1..Len(clicks) :
       /\ probes[k] = clicks[k].target
       /\ Len(NavsBy(k)) = (IF clicks[k].state = "done" THEN 1 ELSE 0)

\* a click leaves the earlier clicks, their probes and the navigations as
\* they are
C13_ClickCancelsNothing ==
  Len(clicks') > Len(clicks) =>
    /\ SubSeq(clicks', 1, Len(clicks)) = clicks
    /\ SubSeq(probes', 1, Len(probes)) = probes
    /\ navs' = navs

\* the handler that resumes issues the navigation that is now the last one,
\* and leaves the other clicks as they are
C13_ResumedIsLast ==
  \A k \in 1..Len(clicks) :
    clicks[k].state = "settled" /\ clicks'[k].state = "done" =>
      /\ Len(navs') = Len(navs) + 1
      /\ SubSeq(navs', 1, Len(navs)) = navs
      /\ navs'[Len(navs')].by = k
      /\ navs'[Len(navs')].url \in
           {clicks[k].target, <<"/">> \o clicks[k].chosen \o <<"/">> \o s_index \o search \o hash}
      /\ \A j \in 1..Len(clicks) : j # k => clicks'[j] = clicks[j]

\* C13: overlapping clicks are neither cancelled, serialized nor
\* de-duplicated: a second click made while a probe is in flight leaves that
\* probe in flight and issues its own, each click navigates when its own
\* handler resumes, and the navigation issued last is that of the handler
\* that resumed last, whatever the order of the clicks.
C13_OverlappingClicks ==
  /\ []C13_EachClickItsOwn
  /\ [][C13_ClickCancelsNothing /\ C13_ResumedIsLast]_vars

\* two clicks for different languages, the second made while the probe of
\* the first was in flight; the second navigated first and the navigation
\* issued last is that of the first click
C13_Witness ==
  /\ Len(clicks) = 2
  /\ clicks[1].state = "done" /\ clicks[2].state = "done"
  /\ clicks[1].chosen # clicks[2].chosen
  /\ Len(navs) >= 2
  /\ navs[Len(navs)].by = 1
  /\ navs[Len(navs) - 1].by = 2
  /\ navs[Len(navs)].url # navs[Len(navs) - 1].url

(* ------------------------------- C14 --------------------------------- *)

\* the language of the most recent click
LastChosen == normalizeLang(flags[clicks[Len(clicks)].flag].lang)

\* C14: in every state after at least one click, probes in flight or not and
\* in whatever order they resolve, the highlighted language is the normalized
\* language of the most recent click, and so is the persisted preference
\* when the store is writable.
C14_LastClickWins ==
  clicks # << >> =>
    /\ ActiveExactly(flags, LastChosen)
    /\ storageMode = "ok" => storage = LastChosen

\* the first click has navigated, the second, for another language, is still
\* probing, and the store holds the language of the second
C14_Witness ==
  /\ Len(clicks) = 2
  /\ clicks[1].state = "done" /\ clicks[2].state = "probing"
  /\ clicks[1].chosen # clicks[2].chosen
  /\ storageMode = "ok"
  /\ storage = clicks[2].chosen

(* ------------------------------- C15 --------------------------------- *)

\* C15: every value this script writes under the key is one of the canonical
\* codes en, nl, uk: the stored value is what it was before the script ran
\* until a step changes it, and a step changes it to a canonical code only.
C15_WritesCanonical ==
  [][storage' # storage => storage' \in Canonical]_vars

\* on /ua/ a flag with data-lang 'ua' has been clicked and the store holds
\* 'uk'
C15_Witness ==
  /\ pathname = <<"/">> \o s_ua \o <<"/">>
  /\ storageMode = "ok"
  /\ clicks # << >>
  /\ flags[clicks[Len(clicks)].flag].lang = s_ua
  /\ storage = s_uk

(* ------------------------------- C16 --------------------------------- *)

\* the language prefix of a URL
LangPrefix(url) == LeadingSegment(PathOfUrl(url))

NoProbeInFlight == \A k \in 1..Len(clicks) : clicks[k].state = "done"

Unsupported(raw) == SplitFirst(toLowerCase(raw), "-") \notin SUPPORTED

\* the test !chosen of the click handler fails on every flag, and every click
\* made has persisted a supported code, highlighted it and issued its probe
C18_NoAbort ==
  /\ normalizeLang(Null) = DEFAULT_LANG
  /\ \A i \in 1..Len(flags) :
       /\ ~Falsy(normalizeLang(flags[i].lang))
       /\ normalizeLang(flags[i].lang) \in SUPPORTED
       /\ Unsupported(flags[i].lang) => normalizeLang(flags[i].lang) = DEFAULT_LANG
  /\ Len(probes) = Len(clicks)
  /\ \A k \in 1..Len(clicks) :
       LET c == clicks[k]
       IN  /\ c.chosen \in SUPPORTED
           /\ Unsupported(flags[c.flag].lang) => c.chosen = DEFAULT_LANG
           /\ LangPrefix(probes[k]) = c.chosen
           /\ c.state = "done" =>
                Len(NavsBy(k)) = 1 /\ LangPrefix(NavsBy(k)[1].url) = c.chosen
  /\ clicks # << >> =>
       /\ ActiveExactly(flags, clicks[Len(clicks)].chosen)
       /\ storageMode = "ok" => storage = clicks[Len(clicks)].chosen

\* C18: the silent-abort branch of the click handler is never taken: whatever
\* the data-lang attribute of a flag (empty, missing, unsupported), a click
\* persists a supported code, updates the highlighting, issues a probe and,
\* the request coming to an end, navigates; an empty or unsupported attribute
\* is handled as 'nl'.
C18_AbortNeverTaken ==
  /\ []C18_NoAbort
  /\ \A k \in 1..MaxClicks :
       (Len(clicks) >= k /\ clicks[k].state = "probing")
         ~> (Len(clicks) >= k /\ clicks[k].state = "done")

\* a flag whose data-lang is empty or 'fr' has been clicked and the click
\* has navigated to /nl/
C18_Witness ==
  \E k \in 1..Len(clicks) :
    /\ flags[clicks[k].flag].lang \in {<< >>, <<"f", "r">>}
    /\ clicks[k].state = "done"
    /\ clicks[k].chosen = s_nl
    /\ LangPrefix(NavsBy(k)[1].url) = s_nl
====
